---- MODULE Spec2Model ----
(***************************************************************************)
(* Model of the two commands of the repository:                            *)
(*   chunk_script.py    text -> paragraphs -> chunks -> <k>.json           *)
(*   chunk_analysis.py  <n>.json -> validated paragraphs -> analysis file  *)
(* Strings are sequences of one-character strings, so that splitting,      *)
(* stripping, joining, int() and str() are computed, not assumed.          *)
(***************************************************************************)
EXTENDS Integers, Sequences, FiniteSets, TLC

(***************************************************************************)
(* Bounds of the model                                                     *)
(***************************************************************************)
MaxLen == 7          \* longest enumerated input text, in characters
MaxTarget == 3       \* largest directly supplied target_chunk_size
MaxRuns == 2         \* chunk runs started in one behaviour
MaxItems == 2        \* longest enumerated JSON array

NL == "\n"
SP == " "
Alphabet == {"a", SP, NL}

(***************************************************************************)
(* Generic helpers                                                         *)
(***************************************************************************)
SetMax(S) == CHOOSE x \in S : \A y \in S : y <= x
SetMin(S) == CHOOSE x \in S : \A y \in S : x <= y

RECURSIVE Flatten(_)
Flatten(ss) == IF ss = <<>> THEN <<>> ELSE Head(ss) \o Flatten(Tail(ss))

RECURSIVE SumSeq(_)
SumSeq(ns) == IF ns = <<>> THEN 0 ELSE Head(ns) + SumSeq(Tail(ns))

(***************************************************************************)
(* Python string primitives used by chunk_script.py                        *)
(***************************************************************************)
\* \s of the re module and the whitespace of str.strip()/str.split()
IsSpace(c) == c \in {SP, NL}

\* str.strip(): drop leading and trailing whitespace
strip(s) ==
    LET ink == {i \in 1..Len(s) : ~IsSpace(s[i])}
    IN  IF ink = {} THEN <<>> ELSE SubSeq(s, SetMin(ink), SetMax(ink))

\* len(s.split()): the number of maximal runs of non-whitespace
WordCount(s) ==
    Cardinality({i \in 1..Len(s) :
                    /\ ~IsSpace(s[i])
                    /\ (i = 1 \/ IsSpace(s[i-1]))})

\* The end of the match of \n\s*\n starting at position i, or 0: \s* is
\* greedy, so the match runs to the last newline of the whitespace run.
MatchEnd(t, i) ==
    IF t[i] # NL THEN 0
    ELSE LET ends == {j \in (i+1)..Len(t) :
                         /\ t[j] = NL
                         /\ \A m \in (i+1)..j : IsSpace(t[m])}
         IN  IF ends = {} THEN 0 ELSE SetMax(ends)

\* re.split(r'\n\s*\n', text) continued from position from
RECURSIVE ReSplit(_, _)
ReSplit(t, from) ==
    LET starts == {i \in from..Len(t) : MatchEnd(t, i) # 0}
    IN  IF starts = {} THEN <<SubSeq(t, from, Len(t))>>
        ELSE LET i == SetMin(starts)
             IN  <<SubSeq(t, from, i - 1)>> \o ReSplit(t, MatchEnd(t, i) + 1)

\* split_into_paragraphs: [p.strip() for p in pieces if p.strip()]
split_into_paragraphs(t) ==
    LET pieces == ReSplit(t, 1)
    IN  SelectSeq([k \in 1..Len(pieces) |-> strip(pieces[k])],
                  LAMBDA p : p # <<>>)

\* sep.join(parts)
RECURSIVE Join(_, _)
Join(parts, sep) ==
    IF parts = <<>> THEN <<>>
    ELSE IF Len(parts) = 1 THEN parts[1]
    ELSE parts[1] \o sep \o Join(Tail(parts), sep)

\* get_target_chunk_size
get_target_chunk_size(age) ==
    IF age <= 12 THEN 150
    ELSE IF age <= 20 THEN 220
    ELSE IF age <= 35 THEN 250
    ELSE IF age <= 50 THEN 240
    ELSE IF age <= 65 THEN 200
    ELSE 180

(***************************************************************************)
(* chunk_paragraphs                                                        *)
(***************************************************************************)
\* ParagraphChunk(id=..., content=..., word_count=...)
ParagraphChunk(id, content, wc) ==
    [id |-> id, content |-> content, word_count |-> wc]

\* The loop state before the first paragraph
ChunkInit ==
    [chunks |-> <<>>, content |-> <<>>, count |-> 0, chunk_id |-> 0]

\* ChunkStep losing the paragraph that closes a chunk
ChunkStep_DropsParagraph(st, p, target_chunk_size) ==
    LET paragraph_word_count == WordCount(p)
    IN  IF st.content = <<>> \/ st.count < target_chunk_size THEN
            [st EXCEPT !.content = Append(@, p),
                       !.count = @ + paragraph_word_count]
        ELSE
            [chunks |-> Append(st.chunks,
                               ParagraphChunk(st.chunk_id,
                                              Join(st.content, <<NL, NL>>),
                                              st.count)),
             content |-> <<>>,
             count |-> 0,
             chunk_id |-> st.chunk_id + 1]

\* ChunkStep without chunk_id += 1
ChunkStep_SameId(st, p, target_chunk_size) ==
    LET paragraph_word_count == WordCount(p)
    IN  IF st.content = <<>> \/ st.count < target_chunk_size THEN
            [st EXCEPT !.content = Append(@, p),
                       !.count = @ + paragraph_word_count]
        ELSE
            [chunks |-> Append(st.chunks,
                               ParagraphChunk(st.chunk_id,
                                              Join(st.content, <<NL, NL>>),
                                              st.count)),
             content |-> <<p>>,
             count |-> paragraph_word_count,
             chunk_id |-> st.chunk_id]

\* ChunkStep closing the chunk before a paragraph would pass the target
ChunkStep_ClosesEarly(st, p, target_chunk_size) ==
    LET paragraph_word_count == WordCount(p)
    IN  IF st.content = <<>>
           \/ st.count + paragraph_word_count <= target_chunk_size THEN
            [st EXCEPT !.content = Append(@, p),
                       !.count = @ + paragraph_word_count]
        ELSE
            [chunks |-> Append(st.chunks,
                               ParagraphChunk(st.chunk_id,
                                              Join(st.content, <<NL, NL>>),
                                              st.count)),
             content |-> <<p>>,
             count |-> paragraph_word_count,
             chunk_id |-> st.chunk_id + 1]

\* ChunkStep counting the characters of a paragraph, not its words
ChunkStep_CountsChars(st, p, target_chunk_size) ==
    LET paragraph_word_count == Len(p)
    IN  IF st.content = <<>> \/ st.count < target_chunk_size THEN
            [st EXCEPT !.content = Append(@, p),
                       !.count = @ + paragraph_word_count]
        ELSE
            [chunks |-> Append(st.chunks,
                               ParagraphChunk(st.chunk_id,
                                              Join(st.content, <<NL, NL>>),
                                              st.count)),
             content |-> <<p>>,
             count |-> paragraph_word_count,
             chunk_id |-> st.chunk_id + 1]

\* One iteration of `for p in paragraphs`
ChunkStep(st, p, target_chunk_size) ==
    LET paragraph_word_count == WordCount(p)
    IN  IF st.content = <<>> THEN
            [st EXCEPT !.content = Append(@, p),
                       !.count = @ + paragraph_word_count]
        ELSE IF st.count < target_chunk_size THEN
            [st EXCEPT !.content = Append(@, p),
                       !.count = @ + paragraph_word_count]
        ELSE
            [chunks |-> Append(st.chunks,
                               ParagraphChunk(st.chunk_id,
                                              Join(st.content, <<NL, NL>>),
                                              st.count)),
             content |-> <<p>>,
             count |-> paragraph_word_count,
             chunk_id |-> st.chunk_id + 1]

RECURSIVE ChunkLoop(_, _, _)
ChunkLoop(st, ps, target_chunk_size) ==
    IF ps = <<>> THEN st
    ELSE ChunkLoop(ChunkStep(st, Head(ps), target_chunk_size),
                   Tail(ps), target_chunk_size)

\* The flush after the loop and the return
ChunkFinish(st) ==
    IF st.content # <<>>
    THEN Append(st.chunks,
                ParagraphChunk(st.chunk_id, Join(st.content, <<NL, NL>>),
                               st.count))
    ELSE st.chunks

chunk_paragraphs(paragraphs, target_chunk_size) ==
    ChunkFinish(ChunkLoop(ChunkInit, paragraphs, target_chunk_size))

(***************************************************************************)
(* get_next_output_path: int(stem), str(next_id), the directory scan       *)
(***************************************************************************)
Digits == <<"0", "1", "2", "3", "4", "5", "6", "7", "8", "9">>
IsDigit(c) == \E d \in 1..10 : Digits[d] = c
DigitVal(c) == (CHOOSE d \in 1..10 : Digits[d] = c) - 1

RECURSIVE DigitsVal(_)
DigitsVal(ds) ==
    IF ds = <<>> THEN 0
    ELSE DigitsVal(SubSeq(ds, 1, Len(ds) - 1)) * 10 + DigitVal(ds[Len(ds)])

\* int(file_id_str): an optional sign and one or more decimal digits;
\* anything else raises ValueError (ok = FALSE)
ParseInt(s) ==
    LET signed == s # <<>> /\ s[1] \in {"-", "+"}
        ds == IF signed THEN Tail(s) ELSE s
    IN  IF ds # <<>> /\ \A i \in 1..Len(ds) : IsDigit(ds[i])
        THEN [ok |-> TRUE,
              val |-> IF signed /\ s[1] = "-" THEN 0 - DigitsVal(ds)
                      ELSE DigitsVal(ds)]
        ELSE [ok |-> FALSE, val |-> 0]

RECURSIVE NatStr(_)
NatStr(n) ==
    IF n < 10 THEN <<Digits[n + 1]>>
    ELSE NatStr(n \div 10) \o <<Digits[(n % 10) + 1]>>

\* f"{next_id}"
IntStr(n) == IF n < 0 THEN <<"-">> \o NatStr(0 - n) ELSE NatStr(n)

\* a path: root directory, book sub-directory, file name (stem, extension)
Path(root, book, stem, ext) ==
    [root |-> root, book |-> book, stem |-> stem, ext |-> ext]

\* os.listdir(book_output_dir)
ListDir(files, root, book) ==
    {f \in DOMAIN files : f.root = root /\ f.book = book}

\* the ids collected by the loop over os.listdir
ExistingIds(files, root, book) ==
    {ParseInt(f.stem).val :
        f \in {g \in ListDir(files, root, book) :
                  g.ext = "json" /\ ParseInt(g.stem).ok}}

get_next_output_path(files, base_results_dir, book_name) ==
    LET existing_ids == ExistingIds(files, base_results_dir, book_name)
        next_id == IF existing_ids # {} THEN SetMax(existing_ids) + 1 ELSE 0
    IN  Path(base_results_dir, book_name, IntStr(next_id), "json")

\* WriteFile that keeps a file that is already there (mode 'x')
WriteFile_Exclusive(files, path, content) ==
    [f \in DOMAIN files \cup {path} |->
        IF f \in DOMAIN files THEN files[f] ELSE content]

\* open(output_path, 'w') followed by json.dump: create or replace
WriteFile(files, path, content) ==
    [f \in DOMAIN files \cup {path} |->
        IF f = path THEN content ELSE files[f]]

(***************************************************************************)
(* JSON values: scalars, and array elements that are objects or scalars    *)
(***************************************************************************)
JInt(n) == [t |-> "int", n |-> n, s |-> <<>>]
JStr(s) == [t |-> "str", n |-> 0, s |-> s]
JNull == [t |-> "null", n |-> 0, s |-> <<>>]
JObj(pairs) == [t |-> "object", o |-> pairs, v |-> JNull]
JVal(sc) == [t |-> "value", o |-> {}, v |-> sc]
KV(k, v) == [k |-> k, v |-> v]
Has(obj, k) == \E kv \in obj.o : kv.k = k
Get(obj, k) == (CHOOSE kv \in obj.o : kv.k = k).v

\* chunk.model_dump() as written by json.dump
model_dump(c) ==
    JObj({KV("id", JInt(c.id)), KV("content", JStr(c.content)),
          KV("word_count", JInt(c.word_count))})

\* chunks_as_dict = [chunk.model_dump() for chunk in chunks]
chunks_as_dict(cs) == [k \in 1..Len(cs) |-> model_dump(cs[k])]

save_chunks_to_json(files, cs, output_path) ==
    WriteFile(files, output_path, chunks_as_dict(cs))

(***************************************************************************)
(* chunk_analysis.py: validation and the call of the external service      *)
(***************************************************************************)
\* ParagraphChunk of chunk_analysis.py: only id and content are kept
ParagraphRecord(id, content) == [id |-> id, content |-> content]

\* the int field: an integer, or a string that int-parses (lax coercion)
ValidId(item) ==
    /\ Has(item, "id")
    /\ \/ Get(item, "id").t = "int"
       \/ Get(item, "id").t = "str" /\ ParseInt(Get(item, "id").s).ok

\* the str field: a string only
ValidContent(item) ==
    /\ Has(item, "content")
    /\ Get(item, "content").t = "str"

\* ParagraphChunk(**item) for an item that is an object and validates
Construct(item) ==
    ParagraphRecord(IF Get(item, "id").t = "int" THEN Get(item, "id").n
                    ELSE ParseInt(Get(item, "id").s).val,
                    Get(item, "content").s)

\* load_chunks_from_file: exc is the exception that escapes, if any
load_chunks_from_file(files, file_path) ==
    IF file_path \notin DOMAIN files
    THEN [exc |-> "none", value |-> <<>>]
    ELSE LET data == files[file_path]
             bad == {i \in 1..Len(data) :
                        \/ data[i].t # "object"
                        \/ ~ValidId(data[i])
                        \/ ~ValidContent(data[i])}
         IN  IF bad = {}
             THEN [exc |-> "none",
                   value |-> [i \in 1..Len(data) |-> Construct(data[i])]]
             ELSE IF data[SetMin(bad)].t # "object"
                  THEN [exc |-> "TypeError", value |-> <<>>]
                  ELSE [exc |-> "none", value |-> <<>>]

\* analyze_paragraphs after the request: the value returned for a response
analyze_paragraphs(resp) ==
    IF resp.kind = "object" /\ resp.has THEN resp.items ELSE <<>>

\* save_analysis_result
save_analysis_result(files, result_list, output_path) ==
    WriteFile(files, output_path, result_list)

\* str.split("\n\n"): undo the blank-line join of a chunk's content
RECURSIVE SplitBlank(_)
SplitBlank(s) ==
    LET hits == {i \in 1..(Len(s) - 1) : s[i] = NL /\ s[i+1] = NL}
    IN  IF hits = {} THEN <<s>>
        ELSE LET i == SetMin(hits)
             IN  <<SubSeq(s, 1, i - 1)>> \o SplitBlank(SubSeq(s, i + 2, Len(s)))

(***************************************************************************)
(* Inputs of the chunk-assembly functions                                  *)
(***************************************************************************)
\* n one-letter words separated by single spaces
Words(n) == [i \in 1..(2 * n - 1) |-> IF i % 2 = 1 THEN "a" ELSE SP]

\* a text whose paragraphs have the given word counts
TextOf(counts) ==
    Join([k \in 1..Len(counts) |-> Words(counts[k])], <<NL, NL>>)

FixtureCounts == {<<100, 100, 100>>, <<500>>, <<100, 60, 100, 500>>}
FixtureTexts == {TextOf(c) : c \in FixtureCounts}
SmallTexts == UNION {[1..n -> Alphabet] : n \in 0..MaxLen}
Texts == SmallTexts \cup FixtureTexts

\* the ages on both sides of every bucket boundary
Ages == {12, 13, 20, 21, 35, 36, 50, 51, 65, 66}

VARIABLES
    stage,        \* position in segment -> assemble
    text,         \* the input text
    target,       \* target_chunk_size, 0 until chosen
    paragraphs,   \* result of split_into_paragraphs
    chunks,       \* result of chunk_paragraphs
    books,        \* books/<name>.txt: book name -> text
    fs,           \* the JSON files: path -> decoded array
    run,          \* the chunk command's runs: process -> locals
    nruns,        \* chunk runs started so far
    log,          \* the chunk files written, in order
    arun,         \* the analyze command's run: locals
    api_key       \* GEMINI_API_KEY is set

cvars == <<stage, text, target, paragraphs, chunks>>
pvars == <<books, fs, run, nruns, log, arun, api_key>>
vars == <<stage, text, target, paragraphs, chunks,
          books, fs, run, nruns, log, arun, api_key>>

Procs == {1, 2}
NoPath == Path("", <<>>, <<>>, "")
IdleRun ==
    [pc |-> "idle", book |-> <<>>, target |-> 0, out |-> NoPath,
     text |-> <<>>, chunks |-> <<>>, wrote |-> FALSE, exit |-> -1]
IdleAnalysis ==
    [pc |-> "idle", book |-> <<>>, file_number |-> <<>>, input |-> NoPath,
     output |-> NoPath, paragraphs |-> <<>>, result |-> <<>>,
     exc |-> "none", wrote |-> FALSE, exit |-> -1]

\* no command has run and there are no files
PipelineIdle ==
    /\ books = <<>>
    /\ fs = <<>>
    /\ run = [p \in Procs |-> IdleRun]
    /\ nruns = 0
    /\ log = <<>>
    /\ arun = IdleAnalysis
    /\ api_key = TRUE

ChunkFnInit ==
    /\ stage = "input"
    /\ text \in Texts
    /\ target = 0
    /\ paragraphs = <<>>
    /\ chunks = <<>>
    /\ PipelineIdle

\* a caller passes a target directly
UseTarget(t) ==
    /\ stage = "input"
    /\ target' = t
    /\ stage' = "sized"
    /\ UNCHANGED <<text, paragraphs, chunks>>
    /\ UNCHANGED pvars

\* __main__: TARGET_CHUNK_SIZE_WORDS = get_target_chunk_size(user_age)
ResolveTarget(age) ==
    /\ stage = "input"
    /\ target' = get_target_chunk_size(age)
    /\ stage' = "sized"
    /\ UNCHANGED <<text, paragraphs, chunks>>
    /\ UNCHANGED pvars

\* paragraphs = split_into_paragraphs(book_text)
Segment ==
    /\ stage = "sized"
    /\ paragraphs' = split_into_paragraphs(text)
    /\ stage' = "split"
    /\ UNCHANGED <<text, target, chunks>>
    /\ UNCHANGED pvars

\* chunks = chunk_paragraphs(paragraphs, target_chunk_size)
Assemble ==
    /\ stage = "split"
    /\ chunks' = chunk_paragraphs(paragraphs, target)
    /\ stage' = "chunked"
    /\ UNCHANGED <<text, target, paragraphs>>
    /\ UNCHANGED pvars

ChunkFnNext ==
    \/ \E t \in 1..MaxTarget : UseTarget(t)
    \/ \E age \in Ages : ResolveTarget(age)
    \/ Segment
    \/ Assemble

SpecChunk == ChunkFnInit /\ [][ChunkFnNext]_vars

(***************************************************************************)
(* The environment of the two commands                                     *)
(***************************************************************************)
BookB == <<"b">>      \* books/b.txt exists
BookC == <<"c">>      \* books/c.txt does not exist
BookNames == {BookB, BookC}
BookTexts == {<<>>, <<SP, NL>>, TextOf(<<150, 1>>)}
RunAges == {12, 30}

\* files that may already be in chunked_results/b
OldStems == {<<"0">>, <<"1">>, <<"3">>, <<"d", "r", "a", "f", "t">>,
             <<"-", "5">>}
OldFiles == {Path("chunked_results", BookB, st, "json") : st \in OldStems}
               \cup {Path("chunked_results", BookB, <<"7">>, "txt")}
OldContent == <<JObj({KV("id", JInt(0)), KV("content", JStr(<<"o">>))})>>

\* array elements a chunk file handed to the analyze command may hold
ChunkElems ==
    { JObj({KV("id", JInt(1)), KV("content", JStr(<<"x">>))}),
      JObj({KV("id", JInt(0)), KV("content", JStr(<<"a">>)),
            KV("word_count", JInt(1))}),
      JObj({KV("id", JStr(<<"b", "a", "d">>))}),
      JObj({KV("id", JStr(<<"1">>)), KV("content", JStr(<<"x">>))}),
      JObj({KV("id", JInt(1)), KV("content", JInt(5))}),
      JObj({KV("content", JStr(<<"x">>))}),
      JVal(JInt(5)),
      JVal(JNull) }
ChunkArrays == UNION {[1..n -> ChunkElems] : n \in 0..MaxItems}
GoodArray == <<JObj({KV("id", JInt(0)), KV("content", JStr(<<"a">>)),
                     KV("word_count", JInt(1))})>>
RunNumbers == {<<"0">>, <<"1">>}

\* the closed enumerations of the prompt
Moods == {"happy", "sad", "angry", "excited", "anxious", "confused",
          "surprised", "disappointed", "grateful", "lonely", "hopeful",
          "content", "frustrated"}
Sentiments == {"positive", "negative", "neutral"}
Types == {"dialogue", "description", "action", "contemplation",
          "reflection"}

\* records the external service may return
AnalysisElems ==
    { JObj({KV("paragraph_id", JInt(0)), KV("mood", JStr(<<"happy">>)),
            KV("sentiment", JStr(<<"positive">>)),
            KV("type", JStr(<<"action">>)),
            KV("type_details", JStr(<<"chase">>))}),
      JObj({KV("paragraph_id", JInt(0)), KV("mood", JStr(<<"furious">>)),
            KV("sentiment", JStr(<<"negative">>)),
            KV("type", JStr(<<"action">>)),
            KV("type_details", JStr(<<"chase">>))}),
      JObj({KV("paragraph_id", JInt(0)), KV("mood", JStr(<<"sad">>))}) }
AnalysisArrays == UNION {[1..n -> AnalysisElems] : n \in 0..MaxItems}

\* outcomes of model.generate_content and json.loads(response.text)
Responses ==
    {[kind |-> k, has |-> FALSE, items |-> <<>>] :
        k \in {"raise", "notjson", "array", "object"}}
    \cup {[kind |-> "object", has |-> TRUE, items |-> a] :
             a \in AnalysisArrays}

(***************************************************************************)
(* The chunk command: __main__ and process_book                            *)
(***************************************************************************)
ChunkBusy == \E p \in Procs : run[p].pc \notin {"idle", "done"}

\* __main__: both arguments given, user_age an integer
ChunkStart(p, b, age) ==
    /\ run[p].pc \in {"idle", "done"}
    /\ arun.pc = "idle"
    /\ nruns < MaxRuns
    /\ nruns' = nruns + 1
    /\ run' = [run EXCEPT ![p] =
                  [IdleRun EXCEPT !.pc = "main", !.book = b,
                                  !.target = get_target_chunk_size(age)]]
    /\ UNCHANGED <<books, fs, log, arun, api_key>>
    /\ UNCHANGED cvars

\* process_book: output_file_path = get_next_output_path(...)
GetNextOutputPath(p) ==
    /\ run[p].pc = "main"
    /\ run' = [run EXCEPT ![p].pc = "scanned",
                          ![p].out = get_next_output_path(
                                        fs, "chunked_results", run[p].book)]
    /\ UNCHANGED <<books, fs, nruns, log, arun, api_key>>
    /\ UNCHANGED cvars

\* read_book_text: "" when the file is not found
read_book_text(b) == IF b \in DOMAIN books THEN books[b] ELSE <<>>

\* process_book: book_text = read_book_text(...); return if empty
ReadBook(p) ==
    /\ run[p].pc = "scanned"
    /\ LET book_text == read_book_text(run[p].book)
       IN  run' = IF book_text = <<>>
                  THEN [run EXCEPT ![p].pc = "done", ![p].exit = 0]
                  ELSE [run EXCEPT ![p].pc = "read", ![p].text = book_text]
    /\ UNCHANGED <<books, fs, nruns, log, arun, api_key>>
    /\ UNCHANGED cvars

\* process_book: split_into_paragraphs, then chunk_paragraphs
ChunkBook(p) ==
    /\ run[p].pc = "read"
    /\ run' = [run EXCEPT ![p].pc = "chunked",
                          ![p].chunks = chunk_paragraphs(
                                           split_into_paragraphs(run[p].text),
                                           run[p].target)]
    /\ UNCHANGED <<books, fs, nruns, log, arun, api_key>>
    /\ UNCHANGED cvars

\* process_book: save_chunks_to_json(chunks, output_file_path); exit 0
SaveChunks(p) ==
    /\ run[p].pc = "chunked"
    /\ fs' = save_chunks_to_json(fs, run[p].chunks, run[p].out)
    /\ log' = Append(log, [p |-> p, path |-> run[p].out,
                           existed |-> run[p].out \in DOMAIN fs,
                           content |-> chunks_as_dict(run[p].chunks)])
    /\ run' = [run EXCEPT ![p].pc = "done", ![p].wrote = TRUE,
                          ![p].exit = 0]
    /\ UNCHANGED <<books, nruns, arun, api_key>>
    /\ UNCHANGED cvars

ChunkCommand(p) ==
    \/ \E b \in BookNames, age \in RunAges : ChunkStart(p, b, age)
    \/ GetNextOutputPath(p)
    \/ ReadBook(p)
    \/ ChunkBook(p)
    \/ SaveChunks(p)

(***************************************************************************)
(* The analyze command: module import and main                             *)
(***************************************************************************)
LoggedStems == {log[i].path.stem : i \in 1..Len(log)}

\* import: ValueError without the key; main: the two paths
AnalyzeStart(b, n) ==
    /\ arun.pc = "idle"
    /\ ~ChunkBusy
    /\ arun' = IF ~api_key
               THEN [IdleAnalysis EXCEPT !.pc = "done", !.book = b,
                                         !.file_number = n,
                                         !.exc = "ValueError", !.exit = 1]
               ELSE [IdleAnalysis EXCEPT
                        !.pc = "main", !.book = b, !.file_number = n,
                        !.input = Path("results", b, n, "json"),
                        !.output = Path("analysis_results", b, n, "json")]
    /\ UNCHANGED <<books, fs, run, nruns, log, api_key>>
    /\ UNCHANGED cvars

\* main: paragraphs = load_chunks_from_file(input_file_path)
LoadChunks ==
    /\ arun.pc = "main"
    /\ LET r == load_chunks_from_file(fs, arun.input)
       IN  arun' = IF r.exc # "none"
                   THEN [arun EXCEPT !.pc = "done", !.exc = r.exc,
                                     !.exit = 1]
                   ELSE IF r.value = <<>>
                   THEN [arun EXCEPT !.pc = "done", !.exit = 0]
                   ELSE [arun EXCEPT !.pc = "loaded",
                                     !.paragraphs = r.value]
    /\ UNCHANGED <<books, fs, run, nruns, log, api_key>>
    /\ UNCHANGED cvars

\* analyze_paragraphs: the library is not installed, sys.exit(1)
ImportFails ==
    /\ arun.pc = "loaded"
    /\ arun' = [arun EXCEPT !.pc = "done", !.exit = 1]
    /\ UNCHANGED <<books, fs, run, nruns, log, api_key>>
    /\ UNCHANGED cvars

\* main: analysis_result_list = analyze_paragraphs(paragraphs)
CallService(resp) ==
    /\ arun.pc = "loaded"
    /\ LET result == analyze_paragraphs(resp)
       IN  arun' = IF result = <<>>
                   THEN [arun EXCEPT !.pc = "done", !.exit = 0]
                   ELSE [arun EXCEPT !.pc = "analyzed", !.result = result]
    /\ UNCHANGED <<books, fs, run, nruns, log, api_key>>
    /\ UNCHANGED cvars

\* main: save_analysis_result(analysis_result_list, output_file_path)
SaveAnalysis ==
    /\ arun.pc = "analyzed"
    /\ fs' = save_analysis_result(fs, arun.result, arun.output)
    /\ arun' = [arun EXCEPT !.pc = "done", !.wrote = TRUE, !.exit = 0]
    /\ UNCHANGED <<books, run, nruns, log, api_key>>
    /\ UNCHANGED cvars

AnalyzeCommand ==
    \/ \E b \in BookNames, n \in RunNumbers \cup LoggedStems :
          AnalyzeStart(b, n)
    \/ LoadChunks
    \/ ImportFails
    \/ \E resp \in Responses : CallService(resp)
    \/ SaveAnalysis

(***************************************************************************)
(* Specifications                                                          *)
(***************************************************************************)
ChunkFnIdle ==
    /\ stage = "input"
    /\ text = <<>>
    /\ target = 0
    /\ paragraphs = <<>>
    /\ chunks = <<>>

\* a book, earlier output files, and perhaps a file under results/
FilesInit(results) ==
    /\ ChunkFnIdle
    /\ \E t \in BookTexts : books = [b \in {BookB} |-> t]
    /\ \E old \in SUBSET OldFiles, res \in results :
          fs = [f \in old \cup (IF res
                                THEN {Path("results", BookB, <<"0">>, "json")}
                                ELSE {}) |->
                   IF f.root = "results" THEN GoodArray ELSE OldContent]
    /\ run = [p \in Procs |-> IdleRun]
    /\ nruns = 0
    /\ log = <<>>
    /\ arun = IdleAnalysis
    /\ api_key = TRUE

\* one operator, one command after another
RunsInit == FilesInit(BOOLEAN)

RunsNext == ChunkCommand(1) \/ AnalyzeCommand

Spec == RunsInit /\ [][RunsNext]_vars

\* two chunk commands started without waiting for each other
ConcNext == \E p \in Procs : ChunkCommand(p)

ConcInit == FilesInit({FALSE})

SpecConc == ConcInit /\ [][ConcNext]_vars

\* the analyze command alone, on any chunk file
AnalyzeInit ==
    /\ ChunkFnIdle
    /\ books = <<>>
    /\ \/ fs = <<>>
       \/ \E a \in ChunkArrays :
             fs = [f \in {Path("results", BookB, <<"0">>, "json")} |-> a]
    /\ run = [p \in Procs |-> IdleRun]
    /\ nruns = 0
    /\ log = <<>>
    /\ arun = IdleAnalysis
    /\ api_key \in BOOLEAN

SpecAnalyze == AnalyzeInit /\ [][AnalyzeCommand]_vars

\* the paragraphs of a chunk list, chunk by chunk in order
ConstituentParagraphs(c) == SplitBlank(c.content)
AllParagraphs(cs) ==
    Flatten([k \in 1..Len(cs) |-> ConstituentParagraphs(cs[k])])

\* C1: the chunks' constituent paragraphs, taken chunk by chunk in order,
\* are exactly the paragraph sequence of the segmenter: nothing dropped,
\* duplicated, reordered or divided between two chunks.
C1_ParagraphsPreserved ==
    stage = "chunked" => AllParagraphs(chunks) = paragraphs

C1_Witness ==
    /\ stage = "chunked"
    /\ Len(chunks) >= 2
    /\ Len(paragraphs) >= 3
    /\ \E k \in 1..Len(chunks) : Len(ConstituentParagraphs(chunks[k])) >= 2

\* C2: the chunk ids, in list order, are exactly 0, 1, ..., n-1, and an
\* empty paragraph sequence gives the empty list.
C2_IdsContiguous ==
    stage = "chunked" =>
        /\ \A k \in 1..Len(chunks) : chunks[k].id = k - 1
        /\ (paragraphs = <<>> => chunks = <<>>)

C2_Witness ==
    /\ stage = "chunked"
    /\ Len(chunks) >= 3

C2_WitnessEmpty ==
    /\ stage = "chunked"
    /\ paragraphs = <<>>
    /\ text # <<>>

Hundred3 == TextOf(<<100, 100, 100>>)

\* C3 as stated: three paragraphs of 100 words and target 250 give exactly
\* two chunks, id 0 with 200 words and id 1 with 100 words.
C3_Original ==
    (stage = "chunked" /\ text = Hundred3 /\ target = 250) =>
        /\ Len(chunks) = 2
        /\ chunks[1].id = 0 /\ chunks[1].word_count = 200
        /\ chunks[2].id = 1 /\ chunks[2].word_count = 100

\* C3 amended: three paragraphs of 100 words and target 250 give exactly
\* one chunk, id 0 with word_count 300, holding all three paragraphs.
C3_OneChunk ==
    (stage = "chunked" /\ text = Hundred3 /\ target = 250) =>
        /\ Len(chunks) = 1
        /\ chunks[1].id = 0
        /\ chunks[1].word_count = 300
        /\ ConstituentParagraphs(chunks[1]) = paragraphs
        /\ Len(paragraphs) = 3

C3_Witness ==
    /\ stage = "chunked"
    /\ text = Hundred3
    /\ target = 250
    /\ \A k \in 1..Len(paragraphs) : WordCount(paragraphs[k]) = 100

\* C10: every chunk but possibly the last has word_count >= target, and
\* every chunk's word_count is the sum of the word counts of its
\* constituent paragraphs.
C10_ClosedAtTarget ==
    stage = "chunked" =>
        /\ \A k \in 1..(Len(chunks) - 1) : chunks[k].word_count >= target
        /\ \A k \in 1..Len(chunks) :
              LET ps == ConstituentParagraphs(chunks[k])
              IN  chunks[k].word_count =
                      SumSeq([j \in 1..Len(ps) |-> WordCount(ps[j])])

C10_Witness ==
    /\ stage = "chunked"
    /\ Len(chunks) >= 2
    /\ chunks[Len(chunks)].word_count < target
    /\ \E k \in 1..(Len(chunks) - 1) : chunks[k].word_count > target

(***************************************************************************)
(* Output numbering and the two commands                                   *)
(***************************************************************************)
StemId(path) == ParseInt(path.stem)
Scanned(p) == run[p].pc \in {"scanned", "read", "chunked"}

\* C4 as stated: in runs made one after another, from any directory
\* content, the id k of every run is max(integer stems) + 1, or 0 when no
\* stem is an integer; k is non-negative and above every existing numeric
\* stem; the ids written grow strictly; no earlier file is overwritten.
C4_Original ==
    /\ \A p \in Procs : Scanned(p) =>
          LET ids == ExistingIds(fs, "chunked_results", run[p].book)
              k == StemId(run[p].out)
          IN  /\ k.ok
              /\ k.val = (IF ids = {} THEN 0 ELSE SetMax(ids) + 1)
              /\ k.val >= 0
              /\ \A i \in ids : i < k.val
    /\ \A j \in 1..Len(log) :
          /\ ~log[j].existed
          /\ \A i \in 1..(j - 1) :
                log[i].path.book = log[j].path.book =>
                    StemId(log[i].path).val < StemId(log[j].path).val

\* C5: when two chunk runs for one book interleave, a later write to a
\* path an earlier run wrote replaces that file: the path holds the content
\* of the last write to it, and nothing of the earlier one.
C5_LastWriteWins ==
    \A i \in 1..Len(log) :
        /\ log[i].path \in DOMAIN fs
        /\ (\A j \in (i + 1)..Len(log) : log[j].path # log[i].path) =>
               fs[log[i].path] = log[i].content
        /\ (\E h \in 1..(i - 1) : log[h].path = log[i].path) =>
               log[i].existed

\* both runs chose the same id and the second write replaced the first
C5_Witness ==
    /\ Len(log) = 2
    /\ log[1].p # log[2].p
    /\ log[1].path = log[2].path
    /\ log[1].content # log[2].content
    /\ log[2].existed
    /\ fs[log[2].path] = log[2].content
    /\ Cardinality({f \in DOMAIN fs : fs[f] = log[1].content}) = 0

\* {id: integer, content: string}
SatisfiesSchema(e) ==
    /\ e.t = "object"
    /\ Has(e, "id") /\ Get(e, "id").t = "int"
    /\ Has(e, "content") /\ Get(e, "content").t = "str"

Loaded == arun.input \in DOMAIN fs /\ arun.pc \in {"loaded", "analyzed", "done"}

\* C6 as stated: an array with an element that is not {id: integer,
\* content: string} loads as the empty list with no exception escaping;
\* arrays whose elements all fit, extra fields or not, are accepted.
C6_Original ==
    Loaded =>
        LET data == fs[arun.input]
        IN  IF \E i \in 1..Len(data) : ~SatisfiesSchema(data[i])
            THEN arun.paragraphs = <<>> /\ arun.exc = "none"
            ELSE Len(arun.paragraphs) = Len(data)

WellFormed(r) ==
    /\ r.t = "object"
    /\ \A k \in {"paragraph_id", "mood", "sentiment", "type",
                 "type_details"} : Has(r, k)
    /\ \E m \in Moods : Get(r, "mood") = JStr(<<m>>)
    /\ \E m \in Sentiments : Get(r, "sentiment") = JStr(<<m>>)
    /\ \E m \in Types : Get(r, "type") = JStr(<<m>>)

\* C7 as stated: no record that lacks a required field or leaves an
\* enumeration is ever returned by analyze_paragraphs or written by main.
C7_Original ==
    /\ \A k \in 1..Len(arun.result) : WellFormed(arun.result[k])
    /\ \A f \in DOMAIN fs : f.root = "analysis_results" =>
          \A k \in 1..Len(fs[f]) : WellFormed(fs[f][k])

ChunkEmpty(p) ==
    \/ read_book_text(run[p].book) = <<>>
    \/ split_into_paragraphs(run[p].text) = <<>>
    \/ run[p].chunks = <<>>

AnalysisEmpty ==
    /\ arun.exc = "none"
    /\ arun.paragraphs = <<>> \/ arun.result = <<>>

\* C8 as stated: a run of either command in which a stage yields an empty
\* result ends with a non-zero exit status and writes no file.
C8_Original ==
    /\ \A p \in Procs : (run[p].pc = "done" /\ ChunkEmpty(p)) =>
          run[p].exit # 0 /\ ~run[p].wrote
    /\ (arun.pc = "done" /\ AnalysisEmpty) =>
          arun.exit # 0 /\ ~arun.wrote

\* C9 as stated: analyze(B, n) reads the file the chunk run wrote for
\* (B, n), and when it writes, writes under the same B and n.
C9_Original ==
    \A i \in 1..Len(log) :
        (/\ arun.pc # "idle"
         /\ arun.book = log[i].path.book
         /\ arun.file_number = log[i].path.stem) =>
            /\ arun.input = log[i].path
            /\ arun.wrote =>
                  /\ arun.output.book = log[i].path.book
                  /\ arun.output.stem = log[i].path.stem

====
